---- MODULE Spec2Model ----
(***************************************************************************)
(* Model of src/main/agent/runtime.ts: the module-level checkpointer       *)
(* singleton, the global workspace path, model resolution and the three    *)
(* asynchronous entry points getCheckpointer, createAgentRuntime and       *)
(* closeRuntime.  JavaScript runs each stretch of code between two awaits  *)
(* atomically, so every action below is one such stretch.                  *)
(***************************************************************************)
EXTENDS Integers, Sequences, FiniteSets, Bags, TLC

\* ---------------------------------------------------------------- bounds
NumCallers == 2          \* calls that may be in flight at once
MaxStores == 2           \* SqlJsSaver instances that may be constructed

StoreIds == 1..MaxStores

\* ------------------------------------------------------ values of the code
Null == 0                        \* `null` of `SqlJsSaver | null`
Undefined == "<undefined>"       \* JavaScript undefined (option absent, no key)
NullPath == "<null>"             \* `null` of `string | null`
Paths == {"/ws/a"}
PathOrNull == Paths \cup {NullPath}
WorkspaceOptions == PathOrNull \cup {Undefined}

\* strings whose prefix matters are sequences of characters
S_claude == <<"c","l","a","u","d","e">>
S_gpt == <<"g","p","t">>
S_gemini == <<"g","e","m","i","n","i">>
EmptyString == <<>>

ModelNames ==
  { S_claude, S_claude \o <<"-","3">>, <<"c","l","a","u","d">>,
    <<"C","l","a","u","d","e">>, S_gpt \o <<"-","4">>, <<"g","p">>,
    S_gemini, S_gemini \o <<"-","p","r","o">>, <<"l","l","a","m","a">>,
    <<"x">> \o S_gpt }

\* the optional parameter modelId?: string
NoModelId == [defined |-> FALSE, value |-> EmptyString]
ModelIdArgs ==
  {NoModelId} \cup {[defined |-> TRUE, value |-> m] : m \in ModelNames \cup {EmptyString}}

DefaultModels == { S_claude \o <<"-","3">>, <<"l","l","a","m","a">> }
KeyValues == {Undefined, "", "sk-key"}
Providers == {"anthropic", "openai"}

\* the configurations and arguments the runtime is exercised with
KeyConfigs ==
  { [anthropic |-> "sk-key", openai |-> Undefined],
    [anthropic |-> "", openai |-> Undefined] }
RuntimeModelIds ==
  { NoModelId,
    [defined |-> TRUE, value |-> S_gpt \o <<"-","4">>],
    [defined |-> TRUE, value |-> S_gemini \o <<"-","p","r","o">>] }

\* String.prototype.startsWith
startsWith(s, prefix) ==
  /\ Len(s) >= Len(prefix)
  /\ SubSeq(s, 1, Len(prefix)) = prefix

\* JavaScript truthiness of a `string | undefined`
Truthy(k) == k # Undefined /\ k # ""

\* `modelId || getDefaultModel()`
ModelOrDefault(modelId, dflt) ==
  IF modelId.defined /\ modelId.value # EmptyString THEN modelId.value ELSE dflt

Thrown(msg) == [tag |-> "throw", model |-> EmptyString, apiKey |-> "", message |-> msg]
Client(cls, m, k) == [tag |-> cls, model |-> m, apiKey |-> k, message |-> ""]
ModelString(m) == [tag |-> "string", model |-> m, apiKey |-> "", message |-> ""]

\* getModelInstance with the key tested by `apiKey === undefined`: an empty
\* key passes as configured
getModelInstance_KeyUndefinedOnly(modelId, keys, dflt) ==
  LET model == ModelOrDefault(modelId, dflt) IN
  IF startsWith(model, S_claude) THEN
    IF keys["anthropic"] = Undefined
      THEN Thrown("Anthropic API key not configured")
      ELSE Client("ChatAnthropic", model, keys["anthropic"])
  ELSE IF startsWith(model, S_gpt) THEN
    IF keys["openai"] = Undefined
      THEN Thrown("OpenAI API key not configured")
      ELSE Client("ChatOpenAI", model, keys["openai"])
  ELSE IF startsWith(model, S_gemini) THEN
    Thrown("Gemini support coming soon")
  ELSE ModelString(model)

\* getModelInstance(modelId), with keys[provider] the value of getApiKey(provider)
\* and dflt the value of getDefaultModel()
getModelInstance(modelId, keys, dflt) ==
  LET model == ModelOrDefault(modelId, dflt) IN
  IF startsWith(model, S_claude) THEN
    IF ~Truthy(keys["anthropic"])
      THEN Thrown("Anthropic API key not configured")
      ELSE Client("ChatAnthropic", model, keys["anthropic"])
  ELSE IF startsWith(model, S_gpt) THEN
    IF ~Truthy(keys["openai"])
      THEN Thrown("OpenAI API key not configured")
      ELSE Client("ChatOpenAI", model, keys["openai"])
  ELSE IF startsWith(model, S_gemini) THEN
    Thrown("Gemini support coming soon")
  ELSE ModelString(model)


\* --------------------------------------------------------------- SqlJsSaver
\* What the module can observe of one SqlJsSaver instance: whether it was
\* constructed, how often initialize() and close() were invoked on it, and how
\* far initialize() and close() got.
FreshStore ==
  [constructed |-> FALSE, initCalls |-> 0, init |-> "none",
   closeCalls |-> 0, closed |-> FALSE]

\* new SqlJsSaver(dbPath) followed by the call of initialize()
ConstructAndInitialize(st) ==
  [st EXCEPT !.constructed = TRUE, !.initCalls = @ + 1, !.init = "pending"]

\* initialize() settles: it either completes or fails
InitializeSettled(st, ok) ==
  [st EXCEPT !.init = IF ok THEN "done" ELSE "failed"]

\* close() is invoked
CloseInvoked(st) == [st EXCEPT !.closeCalls = @ + 1]

\* close() completes; a repeated close() does not throw
CloseSettled(st) == [st EXCEPT !.closed = TRUE]

\* -------------------------------------------------------------------- state
VARIABLES
  checkpointer,          \* let checkpointer: SqlJsSaver | null
  globalWorkspacePath,   \* let globalWorkspacePath: string | null
  stores,                \* the SqlJsSaver instances, by order of construction
  apiKeys,               \* getApiKey(provider)
  defaultModel,          \* getDefaultModel()
  call,                  \* the bag of calls in flight: locals and position of each
  last,                  \* what the step just taken did and returned
  lastSetArg,            \* argument of the most recent setWorkspacePath call
  rArg,                  \* argument of a stand-alone getModelInstance call
  rOut                   \* and its outcome

vars ==
  <<checkpointer, globalWorkspacePath, stores, apiKeys, defaultModel, call, last,
    lastSetArg, rArg, rOut>>

NoSnapshot == [init |-> "none", closing |-> FALSE]

NoModel == [tag |-> "none", model |-> EmptyString, apiKey |-> "", message |-> ""]

\* the frame of a call before any of its locals is set
NewCall ==
  [kind |-> "none", workspacePath |-> Undefined, model |-> NoModel,
   gcPc |-> "none", gcStore |-> Null, gcResult |-> Null, closing |-> Null]

\* the record of one step: the entry point whose code ran, how that call stands
\* after the step, how the getCheckpointer call inside it stands and what it
\* resolved to, and what was passed to createSyncedBackendFactory and
\* createDeepAgent
NoEvent ==
  [kind |-> "none", outcome |-> "none",
   gcOutcome |-> "none", gcResult |-> Null, seen |-> NoSnapshot,
   model |-> NoModel, workspacePath |-> Undefined, path |-> NullPath,
   factoryCalled |-> FALSE, agentCalled |-> FALSE,
   syncPath |-> NullPath, saver |-> Null, saverSeen |-> NoSnapshot]

\* room for one more call in flight
CanCall == BagCardinality(call) < NumCallers

Suspend(c) == call (+) SetToBag({c})
Settle(c) == call (-) SetToBag({c})
Continue(c, d) == (call (-) SetToBag({c})) (+) SetToBag({d})
InFlight == BagToSet(call)

Init ==
  /\ checkpointer = Null
  /\ globalWorkspacePath = NullPath
  /\ stores = [s \in StoreIds |-> FreshStore]
  /\ apiKeys \in KeyConfigs
  /\ defaultModel = S_claude \o <<"-","3">>
  /\ call = EmptyBag
  /\ last = NoEvent
  /\ lastSetArg = NullPath
  /\ rArg = NoModelId
  /\ rOut = NoModel

\* what is true, at the moment a promise resolves to instance s, of that
\* instance: how far its initialize() got and whether close() was invoked on it
Snapshot(st, s) ==
  IF s = Null THEN NoSnapshot
  ELSE [init |-> st[s].init, closing |-> st[s].closeCalls > 0]

\* ---------------------------------------------------------- workspace path
setWorkspacePath(path) ==
  /\ globalWorkspacePath' = path
  /\ lastSetArg' = path
  /\ last' = [NoEvent EXCEPT !.kind = "setWorkspacePath", !.outcome = "resolved",
                             !.path = path]
  /\ UNCHANGED <<checkpointer, stores, apiKeys, defaultModel, call, rArg, rOut>>

\* getWorkspacePath() reads the variable and changes nothing
getWorkspacePath == globalWorkspacePath

\* ---------------------------------------------------------- getCheckpointer
\* instances are numbered in the order of construction
NextStore(st) ==
  CHOOSE s \in StoreIds : ~st[s].constructed /\ \A t \in 1..(s-1) : st[t].constructed

CanEnter(cp, st) == cp # Null \/ \E s \in StoreIds : ~st[s].constructed

\* getCheckpointer without the `if (!checkpointer)` test: every call constructs
getCheckpointerEnter_AlwaysNew(cp, st) ==
  IF cp = Null \/ \E s \in StoreIds : ~st[s].constructed
    THEN LET s == NextStore(st) IN
         [cp |-> s, st |-> [st EXCEPT ![s] = ConstructAndInitialize(@)],
          gcPc |-> "await_init", gcStore |-> s, gcResult |-> Null, seen |-> NoSnapshot]
    ELSE [cp |-> cp, st |-> st,
          gcPc |-> "resolved", gcStore |-> Null, gcResult |-> cp,
          seen |-> Snapshot(st, cp)]

\* getCheckpointer that invokes initialize() again on a cached instance whose
\* initialize() has not completed
getCheckpointerEnter_Reinit(cp, st) ==
  IF cp = Null
    THEN LET s == NextStore(st) IN
         [cp |-> s, st |-> [st EXCEPT ![s] = ConstructAndInitialize(@)],
          gcPc |-> "await_init", gcStore |-> s, gcResult |-> Null, seen |-> NoSnapshot]
    ELSE IF st[cp].init # "done"
    THEN [cp |-> cp, st |-> [st EXCEPT ![cp].initCalls = @ + 1, ![cp].init = "pending"],
          gcPc |-> "await_init", gcStore |-> cp, gcResult |-> Null, seen |-> NoSnapshot]
    ELSE [cp |-> cp, st |-> st,
          gcPc |-> "resolved", gcStore |-> Null, gcResult |-> cp,
          seen |-> Snapshot(st, cp)]

\* getCheckpointer up to its await (or, with a cached instance, to its return):
\* the new values of checkpointer and stores, and where the call stands
getCheckpointerEnter(cp, st) ==
  IF cp = Null
    THEN LET s == NextStore(st) IN
         [cp |-> s, st |-> [st EXCEPT ![s] = ConstructAndInitialize(@)],
          gcPc |-> "await_init", gcStore |-> s, gcResult |-> Null, seen |-> NoSnapshot]
    ELSE [cp |-> cp, st |-> st,
          gcPc |-> "resolved", gcStore |-> Null, gcResult |-> cp,
          seen |-> Snapshot(st, cp)]

GcOutcome(gcPc) == IF gcPc = "await_init" THEN "pending" ELSE gcPc

\* a direct call of getCheckpointer()
getCheckpointer ==
  /\ CanCall
  /\ CanEnter(checkpointer, stores)
  /\ LET e == getCheckpointerEnter(checkpointer, stores) IN
       /\ checkpointer' = e.cp
       /\ stores' = e.st
       /\ call' = IF e.gcPc = "resolved" THEN call
                  ELSE Suspend([NewCall EXCEPT !.kind = "getCheckpointer",
                                  !.gcPc = e.gcPc, !.gcStore = e.gcStore])
       /\ last' = [NoEvent EXCEPT !.kind = "getCheckpointer",
                                  !.outcome = GcOutcome(e.gcPc),
                                  !.gcOutcome = GcOutcome(e.gcPc),
                                  !.gcResult = e.gcResult, !.seen = e.seen]
  /\ UNCHANGED <<globalWorkspacePath, apiKeys, defaultModel, lastSetArg, rArg, rOut>>

\* `return checkpointer` after the await: the module variable is read again
getCheckpointerReturn(cp) == cp

\* initialize() completed; getCheckpointer resumes after its await and returns
getCheckpointerResume(c) ==
  /\ c.gcPc = "await_init"
  /\ LET s == c.gcStore
         st2 == [stores EXCEPT ![s] = InitializeSettled(@, TRUE)]
         r == getCheckpointerReturn(checkpointer)
         direct == c.kind = "getCheckpointer" IN
       /\ stores' = st2
       /\ call' = IF direct THEN Settle(c)
                  ELSE Continue(c, [c EXCEPT !.gcPc = "resolved", !.gcStore = Null,
                                             !.gcResult = r])
       /\ last' = [NoEvent EXCEPT !.kind = c.kind,
                                  !.outcome = IF direct THEN "resolved" ELSE "pending",
                                  !.gcOutcome = "resolved",
                                  !.gcResult = r, !.seen = Snapshot(st2, r)]
  /\ UNCHANGED <<checkpointer, globalWorkspacePath, apiKeys, defaultModel, lastSetArg, rArg, rOut>>

\* initialize() failed; the await throws and getCheckpointer rejects
getCheckpointerInitFailed(c) ==
  /\ c.gcPc = "await_init"
  /\ LET direct == c.kind = "getCheckpointer" IN
       /\ stores' = [stores EXCEPT ![c.gcStore] = InitializeSettled(@, FALSE)]
       /\ call' = IF direct THEN Settle(c)
                  ELSE Continue(c, [c EXCEPT !.gcPc = "rejected", !.gcStore = Null])
       /\ last' = [NoEvent EXCEPT !.kind = c.kind,
                                  !.outcome = IF direct THEN "rejected" ELSE "pending",
                                  !.gcOutcome = "rejected"]
  /\ UNCHANGED <<checkpointer, globalWorkspacePath, apiKeys, defaultModel, lastSetArg, rArg, rOut>>

\* ------------------------------------------------------- createAgentRuntime
\* workspacePath || globalWorkspacePath: an explicit null falls through
syncPathOf_Truthy(workspacePath, global) ==
  IF workspacePath # Undefined /\ workspacePath # NullPath THEN workspacePath ELSE global

\* workspacePath !== undefined ? workspacePath : globalWorkspacePath
syncPathOf(workspacePath, global) ==
  IF workspacePath # Undefined THEN workspacePath ELSE global

\* createAgentRuntime that starts getCheckpointer() before it resolves the model
createAgentRuntime_CheckpointerFirst(modelId, workspacePath) ==
  /\ CanCall
  /\ CanEnter(checkpointer, stores)
  /\ LET e == getCheckpointerEnter(checkpointer, stores)
         model == getModelInstance(modelId, apiKeys, defaultModel) IN
       /\ checkpointer' = e.cp
       /\ stores' = e.st
       /\ IF model.tag = "throw"
            THEN /\ call' = IF e.gcPc = "resolved" THEN call
                            ELSE Suspend([NewCall EXCEPT !.kind = "getCheckpointer",
                                            !.gcPc = e.gcPc, !.gcStore = e.gcStore])
                 /\ last' = [NoEvent EXCEPT !.kind = "createAgentRuntime",
                                            !.outcome = "rejected", !.model = model,
                                            !.workspacePath = workspacePath]
            ELSE /\ call' = Suspend(
                        [NewCall EXCEPT !.kind = "createAgentRuntime",
                           !.workspacePath = workspacePath, !.model = model,
                           !.gcPc = e.gcPc, !.gcStore = e.gcStore,
                           !.gcResult = e.gcResult])
                 /\ last' = [NoEvent EXCEPT !.kind = "createAgentRuntime",
                                  !.outcome = "pending", !.model = model,
                                  !.workspacePath = workspacePath,
                                  !.gcOutcome = GcOutcome(e.gcPc),
                                  !.gcResult = e.gcResult, !.seen = e.seen]
  /\ UNCHANGED <<globalWorkspacePath, apiKeys, defaultModel, lastSetArg, rArg, rOut>>

\* createAgentRuntime(options) up to `await getCheckpointer()`
createAgentRuntime(modelId, workspacePath) ==
  /\ CanCall
  /\ LET model == getModelInstance(modelId, apiKeys, defaultModel) IN
       IF model.tag = "throw"
         THEN /\ call' = call
              /\ last' = [NoEvent EXCEPT !.kind = "createAgentRuntime",
                                         !.outcome = "rejected", !.model = model,
                                         !.workspacePath = workspacePath]
              /\ UNCHANGED <<checkpointer, stores>>
         ELSE /\ CanEnter(checkpointer, stores)
              /\ LET e == getCheckpointerEnter(checkpointer, stores) IN
                   /\ checkpointer' = e.cp
                   /\ stores' = e.st
                   /\ call' = Suspend(
                        [NewCall EXCEPT !.kind = "createAgentRuntime",
                           !.workspacePath = workspacePath, !.model = model,
                           !.gcPc = e.gcPc, !.gcStore = e.gcStore,
                           !.gcResult = e.gcResult])
                   /\ last' = [NoEvent EXCEPT !.kind = "createAgentRuntime",
                                  !.outcome = "pending", !.model = model,
                                  !.workspacePath = workspacePath,
                                  !.gcOutcome = GcOutcome(e.gcPc),
                                  !.gcResult = e.gcResult, !.seen = e.seen]
  /\ UNCHANGED <<globalWorkspacePath, apiKeys, defaultModel, lastSetArg, rArg, rOut>>

\* the awaited getCheckpointer() resolved: the rest of createAgentRuntime
createAgentRuntimeResume(c) ==
  /\ c.kind = "createAgentRuntime"
  /\ c.gcPc = "resolved"
  /\ LET saver == c.gcResult
         syncPath == syncPathOf(c.workspacePath, globalWorkspacePath) IN
       last' = [NoEvent EXCEPT !.kind = "createAgentRuntime", !.outcome = "resolved",
                  !.model = c.model, !.workspacePath = c.workspacePath,
                  !.syncPath = syncPath, !.saver = saver,
                  !.saverSeen = Snapshot(stores, saver),
                  !.factoryCalled = TRUE, !.agentCalled = TRUE]
  /\ call' = Settle(c)
  /\ UNCHANGED <<checkpointer, globalWorkspacePath, stores, apiKeys, defaultModel,
                 lastSetArg, rArg, rOut>>

\* the awaited getCheckpointer() rejected: createAgentRuntime rejects with it
createAgentRuntimeRejected(c) ==
  /\ c.kind = "createAgentRuntime"
  /\ c.gcPc = "rejected"
  /\ last' = [NoEvent EXCEPT !.kind = "createAgentRuntime", !.outcome = "rejected",
                !.model = c.model, !.workspacePath = c.workspacePath,
                !.gcOutcome = "rejected"]
  /\ call' = Settle(c)
  /\ UNCHANGED <<checkpointer, globalWorkspacePath, stores, apiKeys, defaultModel,
                 lastSetArg, rArg, rOut>>

\* ------------------------------------------------------------- closeRuntime
\* closeRuntime() up to `await checkpointer.close()`, or to its end when
\* there is no cached instance
closeRuntime ==
  /\ CanCall
  /\ IF checkpointer # Null
       THEN /\ stores' = [stores EXCEPT ![checkpointer] = CloseInvoked(@)]
            /\ call' = Suspend([NewCall EXCEPT !.kind = "closeRuntime",
                                                !.closing = checkpointer])
            /\ last' = [NoEvent EXCEPT !.kind = "closeRuntime", !.outcome = "pending"]
       ELSE /\ stores' = stores
            /\ call' = call
            /\ last' = [NoEvent EXCEPT !.kind = "closeRuntime", !.outcome = "resolved"]
  /\ UNCHANGED <<checkpointer, globalWorkspacePath, apiKeys, defaultModel, lastSetArg, rArg, rOut>>

\* close() completed; closeRuntime resumes and clears the cached instance
closeRuntimeResume(c) ==
  /\ c.kind = "closeRuntime"
  /\ stores' = [stores EXCEPT ![c.closing] = CloseSettled(@)]
  /\ checkpointer' = Null
  /\ call' = Settle(c)
  /\ last' = [NoEvent EXCEPT !.kind = "closeRuntime", !.outcome = "resolved"]
  /\ UNCHANGED <<globalWorkspacePath, apiKeys, defaultModel, lastSetArg, rArg, rOut>>

\* ------------------------------------------- model resolution on its own
\* getModelInstance applied to the drawn model id and configuration
ResolveModel ==
  /\ rOut = NoModel
  /\ rOut' = getModelInstance(rArg, apiKeys, defaultModel)
  /\ UNCHANGED <<checkpointer, globalWorkspacePath, stores, apiKeys, defaultModel,
                 call, last, lastSetArg, rArg>>

InitResolve ==
  /\ checkpointer = Null
  /\ globalWorkspacePath = NullPath
  /\ stores = [s \in StoreIds |-> FreshStore]
  /\ apiKeys \in [Providers -> KeyValues]
  /\ defaultModel \in DefaultModels
  /\ call = EmptyBag
  /\ last = NoEvent
  /\ lastSetArg = NullPath
  /\ rArg \in ModelIdArgs
  /\ rOut = NoModel

\* --------------------------------------------------------- specifications
Next ==
  \/ \E path \in PathOrNull : setWorkspacePath(path)
  \/ getCheckpointer
  \/ \E c \in InFlight : getCheckpointerResume(c)
  \/ \E c \in InFlight : getCheckpointerInitFailed(c)
  \/ \E m \in RuntimeModelIds, w \in WorkspaceOptions : createAgentRuntime(m, w)
  \/ \E c \in InFlight : createAgentRuntimeResume(c)
  \/ \E c \in InFlight : createAgentRuntimeRejected(c)
  \/ closeRuntime
  \/ \E c \in InFlight : closeRuntimeResume(c)

Spec == Init /\ [][Next]_vars

\* the executions in which closeRuntime is never called
NextNoClose ==
  \/ \E path \in PathOrNull : setWorkspacePath(path)
  \/ getCheckpointer
  \/ \E c \in InFlight : getCheckpointerResume(c)
  \/ \E c \in InFlight : getCheckpointerInitFailed(c)
  \/ \E m \in RuntimeModelIds, w \in WorkspaceOptions : createAgentRuntime(m, w)
  \/ \E c \in InFlight : createAgentRuntimeResume(c)
  \/ \E c \in InFlight : createAgentRuntimeRejected(c)

SpecNoClose == Init /\ [][NextNoClose]_vars

\* getModelInstance over every drawn model id and key configuration
NextResolve == ResolveModel

SpecResolve == InitResolve /\ [][NextResolve]_vars

\* ------------------------------------------------------------------ claims
Constructed == {s \in StoreIds : stores[s].constructed}
Open == {s \in StoreIds : stores[s].constructed /\ ~stores[s].closed}
GcResolved == last.gcOutcome = "resolved"

\* C1: with closeRuntime never called, at most one SqlJsSaver is constructed,
\* exactly one once getCheckpointer has been entered, and every getCheckpointer
\* call that resolves (directly or inside createAgentRuntime) resolves to that
\* one instance, which is also the one passed to createDeepAgent.
C1_SingleStore ==
  /\ Cardinality(Constructed) <= 1
  /\ (last.gcOutcome # "none" => Constructed = {1} /\ checkpointer = 1)
  /\ (GcResolved => last.gcResult = 1)
  /\ (last.agentCalled => last.saver = 1)

\* a second call resolved to the cached instance while the first call was
\* still awaiting initialize()
C1_Witness ==
  /\ GcResolved
  /\ last.gcResult = 1
  /\ last.seen.init = "pending"
  /\ BagCardinality(call) >= 1

\* C2 (as claimed): close() is invoked at most once on each store instance,
\* and when a closeRuntime call completes with no other one in flight the
\* cached checkpointer is null.
C2_CloseAtMostOnce ==
  /\ \A s \in StoreIds : stores[s].closeCalls <= 1
  /\ (last.kind = "closeRuntime" /\ last.outcome = "resolved"
        /\ (\A c \in InFlight : c.kind # "closeRuntime")
      => checkpointer = Null)

\* C3 (as claimed): no getCheckpointer call resolves to, and no
\* createAgentRuntime passes to createDeepAgent, a store on which close() has
\* been invoked.
C3_NeverHandedOutClosed ==
  /\ (GcResolved => ~last.seen.closing)
  /\ (last.agentCalled => ~last.saverSeen.closing)

\* C6 (as claimed): whenever getCheckpointer resolves, the store it resolves to
\* has completed initialize(), and so has the checkpointer passed to
\* createDeepAgent.
C6_ResolvedIsInitialized ==
  /\ (GcResolved => last.seen.init = "done")
  /\ (last.agentCalled => last.saverSeen.init = "done")

\* C7 (as claimed): a store whose initialize() failed is not retained: no
\* getCheckpointer call resolves to an instance whose initialize() has failed.
C7_FailedStoreNotRetained ==
  GcResolved => last.seen.init # "failed"

\* C8: initialize() is invoked exactly once on every constructed SqlJsSaver
\* instance, and never on another.
C8_InitializeOnce ==
  \A s \in StoreIds : stores[s].initCalls = (IF stores[s].constructed THEN 1 ELSE 0)

\* a second instance exists after the first was closed, and a call resolved to
\* a cached instance whose initialize() had not completed
C8_Witness ==
  /\ stores[1].closed
  /\ stores[2].constructed
  /\ GcResolved
  /\ last.gcResult = 2
  /\ last.seen.init # "done"

\* C9 (as claimed): at most one store instance is constructed and not yet
\* closed, and every such instance is the cached one.
C9_AtMostOneOpen ==
  /\ Cardinality(Open) <= 1
  /\ \A s \in Open : checkpointer = s

\* C5: the path passed to createSyncedBackendFactory is options.workspacePath
\* unless that is undefined (an explicit null included), else the global path;
\* the global path is the argument of the most recent setWorkspacePath call
\* (null if none) and is what getWorkspacePath returns, so no override changes it.
C5_SyncPath ==
  /\ globalWorkspacePath = lastSetArg
  /\ getWorkspacePath = lastSetArg
  /\ (last.factoryCalled =>
        last.syncPath = (IF last.workspacePath # Undefined
                           THEN last.workspacePath ELSE lastSetArg))

\* an explicit null override selected state-only mode although a global path is set
C5_Witness ==
  /\ last.factoryCalled
  /\ last.workspacePath = NullPath
  /\ last.syncPath = NullPath
  /\ lastSetArg \in Paths

\* C10: a createAgentRuntime call that rejects because model resolution threw
\* leaves the cached checkpointer, the stores, the global workspace path and
\* the calls in flight as they were, enters no getCheckpointer and calls
\* neither createSyncedBackendFactory nor createDeepAgent.
C10_RejectsBeforeSharedState ==
  [][ (last'.kind = "createAgentRuntime" /\ last'.outcome = "rejected"
         /\ last'.model.tag = "throw")
      => /\ UNCHANGED <<checkpointer, stores, globalWorkspacePath, call>>
         /\ last'.gcOutcome = "none"
         /\ ~last'.factoryCalled
         /\ ~last'.agentCalled ]_vars

\* model resolution threw while no store had been constructed yet
C10_Witness ==
  /\ last.kind = "createAgentRuntime"
  /\ last.outcome = "rejected"
  /\ last.model.tag = "throw"
  /\ last.model.message = "OpenAI API key not configured"
  /\ checkpointer = Null
  /\ Constructed = {}

CredentialMissing ==
  {"Anthropic API key not configured", "OpenAI API key not configured"}
ProviderUnsupported == {"Gemini support coming soon"}
Resolved == ModelOrDefault(rArg, defaultModel)
IsClient(r) == r.tag \in {"ChatAnthropic", "ChatOpenAI"}

\* C4 (as claimed): getModelInstance returns a constructed client or throws; a
\* 'claude'/'gpt' id without its key throws credential-missing, and an id of no
\* supported provider throws provider-unsupported.
C4_ClientOrThrow ==
  rOut # NoModel =>
    /\ IsClient(rOut) \/ rOut.tag = "throw"
    /\ (startsWith(Resolved, S_claude) /\ ~Truthy(apiKeys["anthropic"])
          => rOut.tag = "throw" /\ rOut.message \in CredentialMissing)
    /\ (startsWith(Resolved, S_gpt) /\ ~Truthy(apiKeys["openai"])
          => rOut.tag = "throw" /\ rOut.message \in CredentialMissing)
    /\ (~startsWith(Resolved, S_claude) /\ ~startsWith(Resolved, S_gpt)
          => rOut.tag = "throw" /\ rOut.message \in ProviderUnsupported)

\* C4 (amended): a 'claude'/'gpt' id yields a constructed client of its
\* provider when the key is present and a credential-missing throw when it is
\* absent or empty; a 'gemini' id throws provider-unsupported; any other id is
\* returned unchanged as a model string, neither a client nor a throw.
C4_ClientThrowOrString ==
  rOut # NoModel =>
    /\ (startsWith(Resolved, S_claude) =>
          IF Truthy(apiKeys["anthropic"])
            THEN rOut.tag = "ChatAnthropic" /\ rOut.model = Resolved
                 /\ rOut.apiKey = apiKeys["anthropic"]
            ELSE rOut.tag = "throw" /\ rOut.message \in CredentialMissing)
    /\ (startsWith(Resolved, S_gpt) =>
          IF Truthy(apiKeys["openai"])
            THEN rOut.tag = "ChatOpenAI" /\ rOut.model = Resolved
                 /\ rOut.apiKey = apiKeys["openai"]
            ELSE rOut.tag = "throw" /\ rOut.message \in CredentialMissing)
    /\ (startsWith(Resolved, S_gemini) =>
          rOut.tag = "throw" /\ rOut.message \in ProviderUnsupported)
    /\ (~startsWith(Resolved, S_claude) /\ ~startsWith(Resolved, S_gpt)
          /\ ~startsWith(Resolved, S_gemini)
          => rOut.tag = "string" /\ rOut.model = Resolved)

\* an id of no provider came back as a plain string
C4_Witness ==
  /\ rArg.defined
  /\ rOut.tag = "string"
  /\ rOut.model = rArg.value

====
